---- MODULE Spec2Model ----
(***************************************************************************)
(* A model of pingdom-operator.py: one run of main() over the ingresses    *)
(* of a cluster, against a remote check service reached through the two   *)
(* memoized readers (checks, describe_check) and the writer modify_check. *)
(*                                                                         *)
(* Python values are tagged tuples: <<"str", s>>, <<"int", n>>,            *)
(* <<"bool", b>>, <<"dict", t>>.  An optional value (None or a value) is   *)
(* a sequence of length 0 or 1.                                            *)
(***************************************************************************)
EXTENDS Integers, Sequences, FiniteSets, TLC

VARIABLES
    env_DRY_RUN,     \* os.environ: <<>> when DRY_RUN is unset, else <<string>>
    listed,          \* response.items of list_ingress_for_all_namespaces
    remote,          \* the checks held by the remote service, by id
    served,          \* number of requests the remote service has answered
    now,             \* the clock read by the two TTL caches
    pc,              \* "start", "list", "loop", "done", "crashed"
    dry_run,         \* Pingdom.dry_run
    Ingress_hosts,   \* Kubernetes.Ingress.hosts, the class attribute
    ingresses,       \* the list returned by pingdom_ingresses
    pos,             \* position of main's loop: resource, statement, host
    checks_cache,    \* the TTLCache of Pingdom.checks
    describe_cache,  \* the TTLCache of Pingdom.describe_check
    req_limit_short, \* Pingdom.req_limit_short (<<>> while never set)
    req_limit_long,  \* Pingdom.req_limit_long  (<<>> while never set)
    calls,           \* every call made so far, in order
    outcome,         \* how each resource of the pass ended
    error,           \* the exception that ended the process, "none" if none
    last_headers,    \* the counters the latest remote response carried
    last_list,       \* what the latest call of checks returned
    last_modify      \* the latest call of modify_check: resource, check id,
                     \* result, check_body, check_modify_request, exception
                     \* raised while the request was built

vars == << env_DRY_RUN, listed, remote, served, now, pc, dry_run,
           Ingress_hosts, ingresses, pos, checks_cache, describe_cache,
           req_limit_short, req_limit_long, calls, outcome, error,
           last_headers, last_list, last_modify >>

(***************************************************************************)
(* Bounds and program constants                                            *)
(***************************************************************************)
MaxIngress == 2

\* The ttl of the cache of Kubernetes.list_ingress_for_all_namespaces.
list_ingress_ttl == 90

\* The ttl of the cache of Pingdom.checks.
checks_ttl == 600

\* The ttl of the cache of Pingdom.describe_check.
describe_ttl == 600

\* The clock readings at which a call can be made.  Two readings are less
\* than 90 s apart (0, 60), between 90 s and 600 s apart (60, 650) or more
\* than 600 s apart (0, 650).
Instants == {0, 60, 650}

(***************************************************************************)
(* Python values                                                           *)
(***************************************************************************)
StrV(s) == <<"str", s>>

IntV(n) == <<"int", n>>

BoolV(b) == <<"bool", b>>

DictV(t) == <<"dict", t>>

\* Python's == on the values above: True == 1 and False == 0, values of
\* different types are otherwise unequal.
PyEq(a, b) ==
    IF a[1] = b[1] THEN a[2] = b[2]
    ELSE IF a[1] = "bool" /\ b[1] = "int" THEN b[2] = (IF a[2] THEN 1 ELSE 0)
    ELSE IF a[1] = "int" /\ b[1] = "bool" THEN a[2] = (IF b[2] THEN 1 ELSE 0)
    ELSE FALSE

\* int(value) on an annotation string: the decimal strings parse, every
\* other string raises ValueError (<<>>).
PyInt(s) ==
    CASE s = "1"    -> <<1>>
      [] s = "5"    -> <<5>>
      [] s = "80"   -> <<80>>
      [] s = "8080" -> <<8080>>
      [] OTHER      -> <<>>

\* bool(value) on a string: true for every non-empty string.
PyBool(s) == s # ""

(***************************************************************************)
(* The cluster: raw ingresses                                              *)
(*   annotations: the metadata.annotations mapping in iteration order,     *)
(*                each key split as <<prefix, key, value>>                 *)
(*   annotated:   FALSE when metadata.annotations is None                  *)
(*   tls:         whether spec.tls is non-empty                            *)
(*   rules:       the hosts of spec.rules, in order                        *)
(***************************************************************************)
Prefix == "pingdom-operator.io"

Foreign == <<"kubernetes.io", "ingress.class", "nginx">>

Integrations == <<Prefix, "integrations", "121110">>

Ann(k, v) == <<Prefix, k, v>>

Raw(a, t, r) == [annotations |-> a, tls |-> t, rules |-> r, annotated |-> TRUE]

\* An ingress without any annotation: the client library gives None.
Bare(t, r) == [annotations |-> <<>>, tls |-> t, rules |-> r, annotated |-> FALSE]

IngressPool ==
    { Bare(FALSE, <<"b">>),
      Raw(<<Foreign>>, FALSE, <<"a">>),
      Raw(<<Integrations>>, TRUE, <<"a">>),
      Raw(<<Foreign, Integrations>>, FALSE, <<"a", "b">>),
      Raw(<<Ann("name", "n1")>>, FALSE, <<"a">>),
      Raw(<<Integrations, Ann("name", "n1")>>, FALSE, <<"b">>),
      Raw(<<Integrations, Ann("name", "n3")>>, FALSE, <<"a">>),
      Raw(<<Integrations, Ann("resolution", "five")>>, FALSE, <<"a">>),
      Raw(<<Integrations, Ann("port", "8080")>>, FALSE, <<"a">>),
      Raw(<<Integrations, Ann("hostname", "b")>>, FALSE, <<"a">>) }

Listings == UNION { [1..n -> IngressPool] : n \in 1..MaxIngress }

DryRunSettings == { <<>>, <<"">>, <<"false">>, <<"true">> }

(***************************************************************************)
(* The remote service                                                      *)
(***************************************************************************)
Check(id, name, hostname, type, resolution, encryption, port) ==
    [ top |-> [ id |-> IntV(id), name |-> StrV(name), hostname |-> StrV(hostname),
                resolution |-> IntV(resolution), type |-> DictV(type) ],
      type |-> type,
      typeFields |-> IF type = "http"
                     THEN [ encryption |-> BoolV(encryption), port |-> IntV(port) ]
                     ELSE [ port |-> IntV(port) ] ]

Remotes ==
    { <<Check(1, "n1", "a", t, 1, e, 80), Check(2, "n2", "b", "http", 5, TRUE, 8080)>>
        : t \in {"http", "tcp"}, e \in BOOLEAN }

\* What a response of the remote service can be: a success carrying both
\* counters, an error status, or a success lacking one or both counters.
Responses == { "ok", "error", "no_short", "no_long", "no_counters" }

(***************************************************************************)
(* Kubernetes.Ingress and Kubernetes.pingdom_ingresses                     *)
(***************************************************************************)
\* dict insertion: self.hosts[host] = True keeps the first position of a key.
DictInsert(hosts, h) ==
    IF \E k \in 1..Len(hosts) : hosts[k] = h THEN hosts ELSE Append(hosts, h)

RECURSIVE InsertRules(_, _, _)
InsertRules(hosts, rules, k) ==
    IF k > Len(rules) THEN hosts
    ELSE InsertRules(DictInsert(hosts, rules[k]), rules, k + 1)

\* annotations.get(Prefix + "/" + key): <<>> for None, else <<value>>.
AnnotationGet(annotations, key) ==
    LET at == { k \in 1..Len(annotations) :
                  annotations[k][1] = Prefix /\ annotations[k][2] = key }
    IN IF at = {} THEN <<>> ELSE << annotations[CHOOSE k \in at : TRUE][3] >>

\* A filter that takes an annotation of any prefix.
HasOperatorAnnotation_any(raw) == raw.annotations # <<>>

HasOperatorAnnotation(raw) ==
    \E k \in 1..Len(raw.annotations) : raw.annotations[k][1] = Prefix

\* Ingress.__init__: the object built for listed[src]; hosts is the class
\* attribute before the call.  None.split raises AttributeError when the
\* integrations annotation is absent.
Ingress__init__(raw, src, hosts) ==
    LET integrations == AnnotationGet(raw.annotations, "integrations")
    IN [ hosts  |-> InsertRules(hosts, raw.rules, 1),
         err    |-> IF integrations = <<>> THEN "AttributeError" ELSE "none",
         object |-> [ src |-> src, annotations |-> raw.annotations,
                      https |-> raw.tls ] ]

\* The loop of pingdom_ingresses from listed[k] on; iterating over None
\* raises TypeError.
RECURSIVE MapIngresses(_, _, _, _)
MapIngresses(items, k, hosts, list) ==
    IF k > Len(items) THEN [ hosts |-> hosts, list |-> list, err |-> "none" ]
    ELSE IF ~items[k].annotated
         THEN [ hosts |-> hosts, list |-> list, err |-> "TypeError" ]
    ELSE IF ~HasOperatorAnnotation(items[k])
         THEN MapIngresses(items, k + 1, hosts, list)
    ELSE LET built == Ingress__init__(items[k], k, hosts)
         IN IF built.err # "none"
            THEN [ hosts |-> built.hosts, list |-> list, err |-> built.err ]
            ELSE MapIngresses(items, k + 1, built.hosts,
                              Append(list, built.object))

(***************************************************************************)
(* Pingdom: the transport, the rate-limit counters and the two caches      *)
(*                                                                         *)
(* The operators below thread a record w holding the state a call can      *)
(* change; w.ret is the value the call returns and w.err the exception it  *)
(* raises ("none" when it returns).  After modify_check, w.observed is its *)
(* check_body (<<>> when the describe raised), w.request its               *)
(* check_modify_request and w.diff the exception raised while building it. *)
(***************************************************************************)
World ==
    [ remote |-> remote, served |-> served, checks_cache |-> checks_cache,
      describe_cache |-> describe_cache, req_limit_short |-> req_limit_short,
      req_limit_long |-> req_limit_long, calls |-> calls,
      last_headers |-> last_headers, last_list |-> last_list,
      observed |-> <<>>, request |-> <<>>, diff |-> "none",
      err |-> "none", ret |-> <<>> ]

Call(r, op, key, id) == [ r |-> r, op |-> op, key |-> key, id |-> id ]

Logged(w, r, op, key, id) == [ w EXCEPT !.calls = Append(@, Call(r, op, key, id)) ]

HasShort(resp) == resp \in { "ok", "no_long" }

HasLong(resp) == resp \in { "ok", "no_short" }

\* __parse_headers: the two subscripts, in order; a missing key raises
\* KeyError at its own line.
parse_headers(w, resp) ==
    IF ~HasShort(resp) THEN [ w EXCEPT !.err = "KeyError" ]
    ELSE LET w1 == [ w EXCEPT !.req_limit_short = << w.served >> ]
         IN IF ~HasLong(resp) THEN [ w1 EXCEPT !.err = "KeyError" ]
            ELSE [ w1 EXCEPT !.req_limit_long = << w.served >> ]

\* One request and what the caller does with the response:
\* response.raise_for_status() and then self.__parse_headers(response.headers).
Request(w, r, op, id, resp) ==
    LET w1 == [ Logged(w, r, op, "", id) EXCEPT
                  !.served = @ + 1, !.last_headers = resp ]
    IN IF resp = "error" THEN [ w1 EXCEPT !.err = "HTTPError" ]
       ELSE parse_headers(w1, resp)

\* response.json()['checks']: the summaries of the checks, in id order.
Snapshot(rem) ==
    [ k \in 1..Len(rem) |->
        [ id |-> k, name |-> rem[k].top.name[2],
          hostname |-> rem[k].top.hostname[2], type |-> rem[k].type ] ]

\* A cache that never serves an entry.
Fresh_never(cache, key) == FALSE

\* TTLCache: an entry is served while the clock is before its expiry; a
\* store first drops the expired entries.  `stored` remembers the clock
\* reading of the store.
Fresh(cache, key) == key \in DOMAIN cache /\ now < cache[key].expires

Store(cache, key, value, ttl) ==
    LET live == { k \in DOMAIN cache : now < cache[k].expires }
    IN [ k \in live \cup {key} |->
           IF k = key
           THEN [ value |-> value, stored |-> now, expires |-> now + ttl ]
           ELSE cache[k] ]

ChecksKey == << "pingdom-operator", "default-cluster" >>

\* A checks that answers a failed request with an empty list, which the
\* cache then stores.
checks_stores_errors(w0, r, resp) ==
    LET w == Logged(w0, r, "checks", "", 0)
    IN IF Fresh(w.checks_cache, ChecksKey)
       THEN [ w EXCEPT !.ret = w.checks_cache[ChecksKey].value,
                       !.last_list = w.checks_cache[ChecksKey].value ]
       ELSE LET w1 == Request(w, r, "listChecks", 0, resp)
                list == IF w1.err # "none" THEN <<>> ELSE Snapshot(w1.remote)
            IN [ w1 EXCEPT !.ret = list, !.last_list = list,
                   !.checks_cache = Store(@, ChecksKey, list, checks_ttl) ]

\* Pingdom.checks(*self.tags_filter) under @cached.
checks(w0, r, resp) ==
    LET w == Logged(w0, r, "checks", "", 0)
    IN IF Fresh(w.checks_cache, ChecksKey)
       THEN [ w EXCEPT !.ret = w.checks_cache[ChecksKey].value,
                       !.last_list = w.checks_cache[ChecksKey].value ]
       ELSE LET w1 == Request(w, r, "listChecks", 0, resp)
                list == Snapshot(w1.remote)
            IN IF w1.err # "none" THEN w1
               ELSE [ w1 EXCEPT
                        !.ret = list, !.last_list = list,
                        !.checks_cache = Store(@, ChecksKey, list, checks_ttl) ]

\* The key @cached builds: positional and keyword arguments hash apart.
DescribeKey(how, arg, val) == << how, arg, val >>

\* describe_check with a checkid >= 1, called positionally (how = "pos") or
\* by keyword (how = "kw").
describe_by_id(w0, r, how, id, resp) ==
    LET key == DescribeKey(how, "checkid", id)
    IN IF Fresh(w0.describe_cache, key)
       THEN [ w0 EXCEPT !.ret = w0.describe_cache[key].value ]
       ELSE LET w1 == Request(w0, r, "getCheck", id, resp)
                body == << w1.remote[id] >>
            IN IF w1.err # "none" THEN w1
               ELSE [ w1 EXCEPT !.ret = body,
                        !.describe_cache = Store(@, key, body, describe_ttl) ]

\* The linear scan: the id of the first summary whose field equals val.
Scan(list, field, val) ==
    LET hits == { k \in 1..Len(list) : list[k][field] = val }
    IN IF hits = {} THEN <<>>
       ELSE << list[CHOOSE k \in hits : \A m \in hits : k <= m].id >>

\* The id of an optional check, 0 for None.
IdOf(check) == IF check = <<>> THEN 0 ELSE check[1].top.id[2]

\* The log entry of what a lookup by name or hostname returned.
Returned(w, r, field, val) ==
    Logged(w, r, IF field = "name" THEN "name_result" ELSE "hostname_result",
           val, IdOf(w.ret))

\* describe_check(name=val) and describe_check(hostname=val).
describe_by(w0, r, field, val, resp_list, resp_get) ==
    LET key == DescribeKey("kw", field, val)
        w   == Logged(w0, r, IF field = "name" THEN "describe_name"
                                 ELSE "describe_hostname", val, 0)
    IN IF Fresh(w.describe_cache, key)
       THEN Returned([ w EXCEPT !.ret = w.describe_cache[key].value ],
                     r, field, val)
       ELSE LET w1 == checks(w, r, resp_list)
                hit == IF w1.err = "none" THEN Scan(w1.ret, field, val) ELSE <<>>
                w2 == IF hit = <<>> THEN [ w1 EXCEPT !.ret = <<>> ]
                      ELSE describe_by_id(w1, r, "kw", hit[1], resp_get)
            IN IF w1.err # "none" THEN w1
               ELSE IF w2.err # "none" THEN w2
               ELSE Returned([ w2 EXCEPT !.describe_cache =
                                 Store(@, key, w2.ret, describe_ttl) ],
                             r, field, val)

(***************************************************************************)
(* Pingdom.modify_check                                                    *)
(***************************************************************************)
BoolKeys == { "ipv6", "encryption", "notifywhenbackup", "paused",
              "verify_certificate" }

IntKeys == { "port", "notifyagainevery", "resolution", "responsetime_threshold",
             "sendnotificationwhendown", "ssl_down_days_before" }

\* The value of one annotation after the two coercions; <<>> when int()
\* raises ValueError.
Coerce(key, value) ==
    IF key \in IntKeys
    THEN (IF PyInt(value) = <<>> THEN <<>> ELSE << IntV(PyInt(value)[1]) >>)
    ELSE IF key \in BoolKeys THEN << BoolV(PyBool(value)) >>
    ELSE << StrV(value) >>

\* check_modify_request[key] = value
SetItem(request, key, value) ==
    [ k \in DOMAIN request \cup {key} |-> IF k = key THEN value ELSE request[k] ]

\* The body of the loop over ingress.annotations for one annotation.
AnnotationStep(st, annotation, check_body) ==
    LET key   == annotation[2]
        value == Coerce(key, annotation[3])
        top   == check_body.top
        typed == check_body.typeFields
        req1  == IF key \in DOMAIN top /\ ~PyEq(top[key], value[1])
                 THEN SetItem(st.request, key, value[1])
                 ELSE st.request
    IN IF annotation[1] # Prefix THEN st
       ELSE IF value = <<>> THEN [ st EXCEPT !.err = "ValueError" ]
       ELSE IF key \in DOMAIN typed /\ ~PyEq(typed[key], value[1])
            \* check_modify_request['type'] does not exist
            THEN [ request |-> req1,
                   err |-> IF "type" \in DOMAIN req1 THEN "TypeError"
                           ELSE "KeyError" ]
       ELSE [ st EXCEPT !.request = req1 ]

RECURSIVE AnnotationLoop(_, _, _, _)
AnnotationLoop(st, annotations, k, check_body) ==
    IF k > Len(annotations) \/ st.err # "none" THEN st
    ELSE AnnotationLoop(AnnotationStep(st, annotations[k], check_body),
                        annotations, k + 1, check_body)

\* The encryption test: the print of a difference reads the local `key`
\* before any assignment to it.
EncryptionStep(st, ingress, check_body) ==
    IF ingress.https
       /\ ~PyEq(check_body.typeFields["encryption"], BoolV(TRUE))
    THEN [ st EXCEPT !.err = "UnboundLocalError" ]
    ELSE st

\* A hostname step that does not compare with the hostname of the check.
HostnameStep_always(st, hosts, check_body) ==
    IF hosts = <<>> THEN [ st EXCEPT !.err = "IndexError" ]
    ELSE [ st EXCEPT !.request = SetItem(@, "hostname", StrV(hosts[1])) ]

\* The hostname test on list(ingress.hosts)[0].
HostnameStep(st, hosts, check_body) ==
    IF hosts = <<>> THEN [ st EXCEPT !.err = "IndexError" ]
    ELSE IF hosts[1] # "" /\ ~PyEq(check_body.top.hostname, StrV(hosts[1]))
         THEN [ st EXCEPT !.request = SetItem(@, "hostname", StrV(hosts[1])) ]
    ELSE st

\* check_modify_request as modify_check builds it for one check body, or
\* the exception raised on the way.
BuildRequest(check_body, ingress, hosts) ==
    LET st0 == [ request |-> <<>>, err |-> "none" ]
        st1 == EncryptionStep(st0, ingress, check_body)
        st2 == IF st1.err # "none" THEN st1
               ELSE HostnameStep(st1, hosts, check_body)
    IN IF check_body.type # "http" THEN [ st0 EXCEPT !.err = "Exception" ]
       ELSE AnnotationLoop(st2, ingress.annotations, 1, check_body)

\* The remote service applying an update payload to a check.
Updated(check, request) ==
    [ check EXCEPT !.top =
        [ k \in DOMAIN check.top |->
            IF k \in DOMAIN request THEN request[k] ELSE check.top[k] ] ]

\* A modify_check without the dry-run guard.
SkipsUpdate_never(flag) == FALSE

\* The guard before the PUT.
SkipsUpdate(flag) == flag

\* modify_check(checkid, ingress); w.ret is "noop", "simulated" or "applied".
modify_check(w0, r, checkid, ingress, hosts, resp_get, resp_put) ==
    LET w  == Logged(w0, r, "modify", "", checkid)
        d  == describe_by_id(w, r, "pos", checkid, resp_get)
        built == BuildRequest(d.ret[1], ingress, hosts)
        w1 == IF d.err # "none" THEN d
              ELSE [ d EXCEPT !.observed = d.ret, !.request = built.request,
                              !.diff = built.err ]
        sent == [ w1 EXCEPT !.remote =
                    IF resp_put = "error" THEN @
                    ELSE [ @ EXCEPT ![checkid] = Updated(@, built.request) ] ]
        w2 == Request(sent, r, "updateCheck", checkid, resp_put)
    IN IF w1.err # "none" THEN [ w1 EXCEPT !.ret = "raised" ]
       ELSE IF built.err # "none"
            THEN [ w1 EXCEPT !.err = built.err, !.ret = "raised" ]
       ELSE IF DOMAIN built.request = {} THEN [ w1 EXCEPT !.ret = "noop" ]
       ELSE IF SkipsUpdate(dry_run) THEN [ w1 EXCEPT !.ret = "simulated" ]
       ELSE IF w2.err # "none" THEN [ w2 EXCEPT !.ret = "raised" ]
       ELSE [ w2 EXCEPT !.ret = "applied" ]

(***************************************************************************)
(* main                                                                    *)
(***************************************************************************)
\* ingress.annotations.get('pingdom-operator.io/name') as a condition.
HasName(ingress) ==
    LET name == AnnotationGet(ingress.annotations, "name")
    IN name # <<>> /\ name[1] # ""

NoPos == [ i |-> 0, at |-> "none", j |-> 0, found |-> 0 ]

\* Where main's loop stands when it reaches resource i (StartOf) or host j of
\* the hosts loop of resource i (HostPos).
RECURSIVE StartOf(_, _, _), HostPos(_, _, _, _)
StartOf(list, hosts, i) ==
    IF i > Len(list) THEN [ i |-> i, at |-> "end", j |-> 0, found |-> 0 ]
    ELSE IF HasName(list[i]) THEN [ i |-> i, at |-> "name", j |-> 0, found |-> 0 ]
    ELSE HostPos(list, hosts, i, 1)

HostPos(list, hosts, i, j) ==
    IF j > Len(hosts) THEN StartOf(list, hosts, i + 1)
    ELSE [ i |-> i, at |-> "host", j |-> j, found |-> 0 ]

Modified(log, r) == \E k \in 1..Len(log) : log[k].r = r /\ log[k].op = "modify"

\* How the resources that the loop has left behind ended.
Finish(out, log, next) ==
    [ k \in DOMAIN out |->
        IF out[k] = "Pending" /\ k < next.i
        THEN (IF Modified(log, k) THEN "Applied" ELSE "Skipped")
        ELSE out[k] ]

Init ==
    /\ env_DRY_RUN \in DryRunSettings
    /\ listed \in Listings
    /\ remote \in Remotes
    /\ served = 0
    /\ now = 0
    /\ pc = "start"
    /\ dry_run = FALSE
    /\ Ingress_hosts = <<>>
    /\ ingresses = <<>>
    /\ pos = NoPos
    /\ checks_cache = <<>>
    /\ describe_cache = <<>>
    /\ req_limit_short = <<>>
    /\ req_limit_long = <<>>
    /\ calls = <<>>
    /\ outcome = <<>>
    /\ error = "none"
    /\ last_headers = "none"
    /\ last_list = <<>>
    /\ last_modify = [ r |-> 0, id |-> 0, result |-> "none", observed |-> <<>>,
                       request |-> <<>>, diff |-> "none" ]

\* bool(os.environ.get('DRY_RUN', "false"))
DryRunFlag(env) == PyBool(IF env = <<>> THEN "false" ELSE env[1])

\* main up to the loop: the environment is read, p.dry_run is set.
main_config ==
    /\ pc = "start"
    /\ dry_run' = DryRunFlag(env_DRY_RUN)
    /\ pc' = "list"
    /\ UNCHANGED << env_DRY_RUN, listed, remote, served, now, Ingress_hosts,
                    ingresses, pos, checks_cache, describe_cache,
                    req_limit_short, req_limit_long, calls, outcome, error,
                    last_headers, last_list, last_modify >>

\* k.pingdom_ingresses(): every Ingress object is built before the loop of
\* main starts; an exception of a constructor ends the process.
pingdom_ingresses ==
    /\ pc = "list"
    /\ LET m == MapIngresses(listed, 1, Ingress_hosts, <<>>)
           first == StartOf(m.list, m.hosts, 1)
       IN /\ Ingress_hosts' = m.hosts
          /\ IF m.err # "none"
             THEN /\ pc' = "crashed"
                  /\ error' = m.err
                  /\ UNCHANGED << ingresses, pos, outcome >>
             ELSE /\ ingresses' = m.list
                  /\ pos' = first
                  /\ pc' = IF first.at = "end" THEN "done" ELSE "loop"
                  /\ outcome' = Finish([ k \in 1..Len(m.list) |-> "Pending" ],
                                       calls, first)
                  /\ UNCHANGED error
    /\ UNCHANGED << env_DRY_RUN, listed, remote, served, now, dry_run,
                    checks_cache, describe_cache, req_limit_short,
                    req_limit_long, calls, last_headers, last_list,
                    last_modify >>

\* The state a call of Pingdom leaves behind.
Commit(w) ==
    /\ remote' = w.remote
    /\ served' = w.served
    /\ checks_cache' = w.checks_cache
    /\ describe_cache' = w.describe_cache
    /\ req_limit_short' = w.req_limit_short
    /\ req_limit_long' = w.req_limit_long
    /\ calls' = w.calls
    /\ last_headers' = w.last_headers
    /\ last_list' = w.last_list

\* A loop that catches the exception of a call and goes on.
Continue_handled(w, next) ==
    /\ pc' = IF next.at = "end" THEN "done" ELSE "loop"
    /\ pos' = next
    /\ outcome' = Finish(IF w.err # "none"
                         THEN [ outcome EXCEPT ![pos.i] = "Failed" ]
                         ELSE outcome, w.calls, next)
    /\ UNCHANGED error

\* main has no exception handler: an exception of a call ends the process,
\* otherwise the loop goes on at next.
Continue(w, next) ==
    IF w.err # "none"
    THEN /\ pc' = "crashed"
         /\ error' = w.err
         /\ outcome' = [ outcome EXCEPT ![pos.i] = "Failed" ]
         /\ UNCHANGED pos
    ELSE /\ pc' = IF next.at = "end" THEN "done" ELSE "loop"
         /\ pos' = next
         /\ outcome' = Finish(outcome, w.calls, next)
         /\ UNCHANGED error

\* The responses a second request of one call can get: there is a second
\* request only when the first one raised nothing.
After(first) == IF first = "ok" THEN Responses ELSE { "ok" }

\* A loop that resolves a named resource by its name only.
AfterNameLookup_name_only(check, p) ==
    IF check # <<>>
    THEN [ p EXCEPT !.at = "modify_name", !.found = IdOf(check) ]
    ELSE StartOf(ingresses, Ingress_hosts, p.i + 1)

\* Where the loop goes after the lookup by name: to modify_check and
\* `continue` when a check came back, else on to the loop over the hosts.
AfterNameLookup(check, p) ==
    IF check # <<>>
    THEN [ p EXCEPT !.at = "modify_name", !.found = IdOf(check) ]
    ELSE HostPos(ingresses, Ingress_hosts, p.i, 1)

\* Where the loop goes after the lookup of host j.
AfterHostLookup(check, p) ==
    IF check # <<>>
    THEN [ p EXCEPT !.at = "modify_host", !.found = IdOf(check) ]
    ELSE HostPos(ingresses, Ingress_hosts, p.i, p.j + 1)

\* check = p.describe_check(name=name)
main_describe_name ==
    /\ pc = "loop" /\ pos.at = "name"
    /\ \E resp_list \in Responses : \E resp_get \in After(resp_list) :
         LET name == AnnotationGet(ingresses[pos.i].annotations, "name")[1]
             w == describe_by(World, pos.i, "name", name, resp_list, resp_get)
         IN /\ Commit(w)
            /\ Continue(w, AfterNameLookup(w.ret, pos))
    /\ UNCHANGED << env_DRY_RUN, listed, now, dry_run, Ingress_hosts,
                    ingresses, last_modify >>

\* p.modify_check(checkid, ingress); continue
main_modify_name ==
    /\ pc = "loop" /\ pos.at = "modify_name"
    /\ \E resp_get \in Responses : \E resp_put \in After(resp_get) :
         LET w == modify_check(World, pos.i, pos.found, ingresses[pos.i],
                               Ingress_hosts, resp_get, resp_put)
         IN /\ Commit(w)
            /\ last_modify' = [ r |-> pos.i, id |-> pos.found, result |-> w.ret,
                                observed |-> w.observed, request |-> w.request,
                                diff |-> w.diff ]
            /\ Continue(w, StartOf(ingresses, Ingress_hosts, pos.i + 1))
    /\ UNCHANGED << env_DRY_RUN, listed, now, dry_run, Ingress_hosts, ingresses >>

\* check = p.describe_check(hostname=host)
main_describe_hostname ==
    /\ pc = "loop" /\ pos.at = "host"
    /\ \E resp_list \in Responses : \E resp_get \in After(resp_list) :
         LET w == describe_by(World, pos.i, "hostname", Ingress_hosts[pos.j],
                              resp_list, resp_get)
         IN /\ Commit(w)
            /\ Continue(w, AfterHostLookup(w.ret, pos))
    /\ UNCHANGED << env_DRY_RUN, listed, now, dry_run, Ingress_hosts,
                    ingresses, last_modify >>

\* p.modify_check(checkid, ingress) in the loop over ingress.hosts
main_modify_host ==
    /\ pc = "loop" /\ pos.at = "modify_host"
    /\ \E resp_get \in Responses : \E resp_put \in After(resp_get) :
         LET w == modify_check(World, pos.i, pos.found, ingresses[pos.i],
                               Ingress_hosts, resp_get, resp_put)
         IN /\ Commit(w)
            /\ last_modify' = [ r |-> pos.i, id |-> pos.found, result |-> w.ret,
                                observed |-> w.observed, request |-> w.request,
                                diff |-> w.diff ]
            /\ Continue(w, HostPos(ingresses, Ingress_hosts, pos.i, pos.j + 1))
    /\ UNCHANGED << env_DRY_RUN, listed, now, dry_run, Ingress_hosts, ingresses >>

\* Time passes between two calls of the loop.
Tick ==
    /\ pc = "loop"
    /\ \E t \in Instants : t > now /\ now' = t
    /\ UNCHANGED << env_DRY_RUN, listed, remote, served, pc, dry_run,
                    Ingress_hosts, ingresses, pos, checks_cache,
                    describe_cache, req_limit_short, req_limit_long, calls,
                    outcome, error, last_headers, last_list, last_modify >>

Next ==
    \/ main_config
    \/ pingdom_ingresses
    \/ main_describe_name
    \/ main_modify_name
    \/ main_describe_hostname
    \/ main_modify_host

\* A pass short enough for the clock to read the same throughout.
Spec == Init /\ [][Next]_vars

(***************************************************************************)
(* The same pass with the clock running between its calls, over the        *)
(* ingresses whose checks resolve.                                         *)
(***************************************************************************)
ClockPool ==
    { Raw(<<Foreign, Integrations>>, FALSE, <<"a", "b">>),
      Raw(<<Integrations, Ann("name", "n1")>>, FALSE, <<"b">>),
      Raw(<<Integrations, Ann("name", "n3")>>, FALSE, <<"a">>) }

InitClock ==
    /\ Init
    /\ \A k \in DOMAIN listed : listed[k] \in ClockPool

NextClock ==
    \/ Next
    \/ Tick

SpecClock == InitClock /\ [][NextClock]_vars

(***************************************************************************)
(* Pingdom.checks called on its own: a caller that catches the exception   *)
(* of a call and calls again, while the clock runs and the remote service  *)
(* is changed by others.  Here `error` is the exception of the latest call *)
(* and the log gets an entry "raised" after a call that raised.            *)
(***************************************************************************)
\* The length the call log can reach before the caller stops calling.
MaxUnitLog == 7

InitUnit ==
    /\ env_DRY_RUN = <<>>
    /\ listed = <<>>
    /\ remote \in Remotes
    /\ served = 0
    /\ now = 0
    /\ pc = "unit"
    /\ dry_run = FALSE
    /\ Ingress_hosts = <<>>
    /\ ingresses = <<>>
    /\ pos = NoPos
    /\ checks_cache = <<>>
    /\ describe_cache = <<>>
    /\ req_limit_short = <<>>
    /\ req_limit_long = <<>>
    /\ calls = <<>>
    /\ outcome = <<>>
    /\ error = "none"
    /\ last_headers = "none"
    /\ last_list = <<>>
    /\ last_modify = [ r |-> 0, id |-> 0, result |-> "none", observed |-> <<>>,
                       request |-> <<>>, diff |-> "none" ]

\* p.checks(*p.tags_filter), its exception caught by the caller.
unit_checks ==
    /\ pc = "unit"
    /\ Len(calls) < MaxUnitLog
    /\ \E resp \in Responses :
         LET w == checks(World, 0, resp)
         IN /\ Commit(IF w.err = "none" THEN w
                      ELSE Logged(w, 0, "raised", w.err, 0))
            /\ error' = w.err
    /\ UNCHANGED << env_DRY_RUN, listed, now, pc, dry_run, Ingress_hosts,
                    ingresses, pos, outcome, last_modify >>

\* Time passes between two calls.
unit_tick ==
    /\ pc = "unit"
    /\ \E t \in Instants : t > now /\ now' = t
    /\ UNCHANGED << env_DRY_RUN, listed, remote, served, pc, dry_run,
                    Ingress_hosts, ingresses, pos, checks_cache,
                    describe_cache, req_limit_short, req_limit_long, calls,
                    outcome, error, last_headers, last_list, last_modify >>

\* Somebody else renames check 1 at the remote service.
unit_rename ==
    /\ pc = "unit"
    /\ remote[1].top.name = StrV("n1")
    /\ remote' = [ remote EXCEPT ![1].top.name = StrV("n3") ]
    /\ UNCHANGED << env_DRY_RUN, listed, served, now, pc, dry_run,
                    Ingress_hosts, ingresses, pos, checks_cache,
                    describe_cache, req_limit_short, req_limit_long, calls,
                    outcome, error, last_headers, last_list, last_modify >>

NextUnit ==
    \/ unit_checks
    \/ unit_tick
    \/ unit_rename

SpecUnit == InitUnit /\ [][NextUnit]_vars

(***************************************************************************)
(* The claims                                                              *)
(***************************************************************************)
Ended == { "Applied", "Skipped", "Failed" }

Terminated == pc \in { "done", "crashed" }

\* The calls of kind op made for resource r, as positions of the log.
Ops(r, op) == { k \in 1..Len(calls) : calls[k].r = r /\ calls[k].op = op }

Count(log, op) == Cardinality({ k \in 1..Len(log) : log[k].op = op })

\* The hosts a raw ingress declares, in declaration order.
OwnHosts(raw) == InsertRules(<<>>, raw.rules, 1)

\* The process ended on an annotation that int() rejects, or on an error
\* status of a describe or update request.
FailedOnOwnCall ==
    \/ error = "ValueError"
    \/ /\ error = "HTTPError"
       /\ calls[Len(calls)].op \in { "getCheck", "updateCheck" }

\* C1: when the processing of one resource fails on an annotation that
\* int() rejects or on a transport error of its describe or update call,
\* every resource of the pass still reaches a terminal outcome.
C1_FailureIsolation ==
    \A r \in DOMAIN outcome :
        (outcome[r] = "Failed" /\ FailedOnOwnCall)
            => \A q \in DOMAIN outcome : outcome[q] \in Ended

\* C2: a resource whose resolved check is not of type http never ends in
\* Failed, gets no update call, and the pass still takes every resource to a
\* terminal outcome.
C2_UnsupportedTypeSkipped ==
    \A r \in DOMAIN outcome :
        (/\ \E k \in Ops(r, "modify") : remote[calls[k].id].type # "http"
         /\ error \notin { "HTTPError", "KeyError" })
            => /\ outcome[r] # "Failed"
               /\ \A k \in Ops(r, "updateCheck") :
                      remote[calls[k].id].type = "http"
               /\ Terminated => \A q \in DOMAIN outcome : outcome[q] \in Ended

\* C3: while p.dry_run is set no step changes a check of the remote service
\* and no update call has been issued.
C3_DryRunNoUpdate ==
    [][ dry_run' => (remote' = remote /\ Count(calls', "updateCheck") = 0) ]_vars

\* C3: a dry run in which modify_check built a non-empty request.
C3_Witness == dry_run /\ last_modify.result = "simulated"

\* C4: right after a successful update, building the request again for the
\* same ingress from the updated check gives the empty request.
C4_ApplyIdempotent ==
    (calls # <<>> /\ calls[Len(calls)].op = "updateCheck"
        /\ last_modify.result = "applied")
    => LET again == BuildRequest(remote[last_modify.id],
                                 ingresses[last_modify.r], Ingress_hosts)
       IN again.err = "none" /\ DOMAIN again.request = {}

ChecksCalled == Count(calls', "checks") = Count(calls, "checks") + 1

ListRequests(n) == Count(calls', "listChecks") = Count(calls, "listChecks") + n

\* The list cache with a freshness window of ttl seconds: a call of checks
\* made less than ttl seconds after the snapshot was stored returns that
\* snapshot without a request, any other call issues one listChecks request.
ListCacheWindow(ttl) ==
    ChecksCalled =>
        IF ChecksKey \in DOMAIN checks_cache
           /\ now < checks_cache[ChecksKey].stored + ttl
        THEN ListRequests(0) /\ last_list' = checks_cache[ChecksKey].value
        ELSE ListRequests(1)

\* C5 as stated: the freshness window of the list cache is 90 seconds.
C5_ListCacheTtl90 == [][ ListCacheWindow(90) ]_vars

\* C5 as amended: the freshness window of the list cache is 600 seconds.
C5_ListCacheTtl600 == [][ ListCacheWindow(600) ]_vars

\* C5: checks has been served from the cache and has fetched the list anew
\* after an expiry, every request having succeeded.
C5_Witness ==
    /\ error = "none"
    /\ Count(calls, "listChecks") >= 2
    /\ Count(calls, "checks") > Count(calls, "listChecks")

\* C6: the hosts of every mapped resource are the hosts that resource
\* declares, in its declaration order.
C6_OwnHostsOnly ==
    \A r \in DOMAIN ingresses :
        Ingress_hosts = OwnHosts(listed[ingresses[r].src])

NameMissed(r) == \E k \in Ops(r, "name_result") : calls[k].id = 0

NameFound(r) == \E k \in Ops(r, "name_result") : calls[k].id # 0

\* C7 as stated: a resource whose match name resolves to no check gets no
\* lookup by hostname and no update call.
C7_NameOnly ==
    \A r \in DOMAIN ingresses :
        NameMissed(r) =>
            Ops(r, "describe_hostname") = {} /\ Ops(r, "updateCheck") = {}

\* C7 as amended: the lookup by name comes first; when it returns a check,
\* that check alone is modified and no lookup by hostname is made; when it
\* returns none, the resource goes through the loop over the hosts like a
\* resource without a name: every host is looked up and every check found
\* is handed to modify_check.
C7_NameThenHosts ==
    \A r \in DOMAIN ingresses :
        /\ NameFound(r) =>
              /\ Ops(r, "describe_hostname") = {}
              /\ \A m \in Ops(r, "modify") :
                     \E k \in Ops(r, "name_result") : calls[m].id = calls[k].id
        /\ Ops(r, "describe_hostname") # {} /\ HasName(ingresses[r])
              => NameMissed(r)
        /\ (NameMissed(r) /\ outcome[r] \in { "Applied", "Skipped" }) =>
              /\ \A j \in DOMAIN Ingress_hosts :
                     \E k \in Ops(r, "describe_hostname") :
                         calls[k].key = Ingress_hosts[j]
              /\ \A k \in Ops(r, "hostname_result") :
                     calls[k].id # 0 =>
                         \E m \in Ops(r, "modify") : calls[m].id = calls[k].id

\* C7: a resource whose match name resolved to no check and for which an
\* update call was issued.
C7_Witness ==
    \E r \in DOMAIN ingresses : NameMissed(r) /\ Ops(r, "updateCheck") # {}

\* C8: every lookup by hostname made for a resource is for the first host
\* it declares, and at most one update call is issued for it.
C8_FirstHostOnly ==
    \A r \in DOMAIN ingresses :
        /\ \A k \in Ops(r, "describe_hostname") :
               calls[k].key = listed[ingresses[r].src].rules[1]
        /\ Cardinality(Ops(r, "updateCheck")) <= 1

\* C9: once pingdom_ingresses has run over resources that all have an
\* annotations mapping, no constructor has raised and every listed resource
\* with an annotation under the prefix is in the list.
C9_MapperTotal ==
    (pc \notin { "start", "list" } /\ error # "TypeError") =>
        /\ error # "AttributeError"
        /\ \A k \in DOMAIN listed :
               HasOperatorAnnotation(listed[k])
                   => \E r \in DOMAIN ingresses : ingresses[r].src = k

Lacking == { "no_short", "no_long", "no_counters" }

\* C10: a response lacking a counter raises nothing, and the two stored
\* counters keep the values they had before the request.
C10_MissingCountersNonFatal ==
    [][ (served' # served /\ last_headers' \in Lacking) =>
            /\ error' = "none"
            /\ served' = served + 1 =>
                   /\ req_limit_short' = req_limit_short
                   /\ req_limit_long' = req_limit_long ]_vars

\* A listed ingress carries an annotation under pingdom-operator.io/.
Recognized(raw) ==
    /\ raw.annotated
    /\ \E k \in 1..Len(raw.annotations) : raw.annotations[k][1] = Prefix

\* C11: every member of the list of pingdom_ingresses is a listed resource
\* with an annotation under the prefix, no listed resource is a member
\* twice, every call is made for a member of the list, and every host of
\* the hosts mapping (the hosts that are looked up) is declared by a
\* resource with such an annotation.
C11_OnlyAnnotated ==
    /\ \A r \in DOMAIN ingresses : Recognized(listed[ingresses[r].src])
    /\ \A r, q \in DOMAIN ingresses :
           ingresses[r].src = ingresses[q].src => r = q
    /\ \A k \in 1..Len(calls) : calls[k].r \in DOMAIN ingresses
    /\ \A j \in DOMAIN Ingress_hosts :
           \E k \in DOMAIN listed :
               /\ Recognized(listed[k])
               /\ \E m \in DOMAIN listed[k].rules :
                      listed[k].rules[m] = Ingress_hosts[j]

\* C11: a finished pass over a listing with a resource without such an
\* annotation, in which another resource got an update call.
C11_Witness ==
    /\ pc = "done"
    /\ \E k \in DOMAIN listed : ~Recognized(listed[k])
    /\ \E r \in DOMAIN ingresses : Ops(r, "updateCheck") # {}

\* The check body and the resource of the latest modify_check on an http
\* check whose describe succeeded.
DiffRan == last_modify.observed # <<>> /\ last_modify.observed[1].type = "http"

Observed == last_modify.observed[1]

Desired == ingresses[last_modify.r]

\* The encryption the resource asks for: its encryption annotation when it
\* has one, else whether it declares TLS.
DesiredEncryption(ingress) ==
    LET a == AnnotationGet(ingress.annotations, "encryption")
    IN IF a # <<>> THEN PyBool(a[1]) ELSE ingress.https

\* check_modify_request holds key nested under its 'type' entry.
TypeSpecific(request, key) ==
    /\ "type" \in DOMAIN request
    /\ request["type"][1] = "dict"
    /\ key \in DOMAIN request["type"][2]

\* C12: on an http check, the test of the encryption raises nothing and
\* the request holds a type-specific encryption exactly when the encryption
\* the resource asks for differs from the one of the check.
C12_EncryptionDiff ==
    (DiffRan /\ last_modify.diff \in { "none", "UnboundLocalError" }) =>
        /\ last_modify.diff = "none"
        /\ TypeSpecific(last_modify.request, "encryption")
              <=> ~PyEq(Observed.typeFields["encryption"],
                        BoolV(DesiredEncryption(Desired)))

\* The annotations of a resource under the prefix, as positions.
Annotated(ingress) ==
    { k \in 1..Len(ingress.annotations) : ingress.annotations[k][1] = Prefix }

\* C13: on an http check, the loop over the annotations raises nothing; an
\* annotated key of the check's top level with another value is in the
\* request with the annotated value, and an annotated key of the check's
\* type-specific fields with another value is in the request under the
\* type key.
C13_AnnotationDiff ==
    (DiffRan /\ last_modify.diff \in { "none", "KeyError", "TypeError" }) =>
        /\ last_modify.diff = "none"
        /\ \A k \in Annotated(Desired) :
               LET key   == Desired.annotations[k][2]
                   value == Coerce(key, Desired.annotations[k][3])[1]
               IN /\ (key \in DOMAIN Observed.top
                         /\ ~PyEq(Observed.top[key], value))
                        => /\ key \in DOMAIN last_modify.request
                           /\ last_modify.request[key] = value
                  /\ (key \in DOMAIN Observed.typeFields
                         /\ ~PyEq(Observed.typeFields[key], value))
                        => TypeSpecific(last_modify.request, key)

\* The resource and the check body of the latest modify_check agree on the
\* encryption, on the first host and on every annotated key that the check
\* has at its top level or among its type-specific fields.
Agrees ==
    /\ PyEq(Observed.typeFields["encryption"], BoolV(Desired.https))
    /\ Ingress_hosts # <<>>
    /\ PyEq(Observed.top.hostname, StrV(Ingress_hosts[1]))
    /\ \A k \in Annotated(Desired) :
           LET key   == Desired.annotations[k][2]
               value == Coerce(key, Desired.annotations[k][3])
           IN /\ value # <<>>
              /\ key \in DOMAIN Observed.top => PyEq(Observed.top[key], value[1])
              /\ key \in DOMAIN Observed.typeFields
                    => PyEq(Observed.typeFields[key], value[1])

ModifyCalled == Count(calls', "modify") = Count(calls, "modify") + 1

\* C14: a modify_check whose resource and http check body agree on every
\* inspected field builds the empty request, returns the nothing-to-modify
\* message and issues no update call, whatever p.dry_run is.
C14_NoopApply ==
    [][ (ModifyCalled /\ (DiffRan /\ Agrees)') =>
            /\ last_modify'.diff = "none"
            /\ DOMAIN last_modify'.request = {}
            /\ last_modify'.result = "noop"
            /\ remote' = remote
            /\ Count(calls', "updateCheck") = Count(calls, "updateCheck") ]_vars

\* C14: with dry-run off, a modify_check found nothing to modify on an http
\* check that agrees with its resource.
C14_Witness ==
    /\ ~dry_run
    /\ DiffRan /\ Agrees
    /\ last_modify.result = "noop"

\* The latest call is a listChecks request that got an error status.
ListingFailed ==
    /\ calls # <<>>
    /\ calls[Len(calls)].op = "listChecks"
    /\ last_headers = "error"

\* C15 as stated: once a listChecks request has failed the pass is over and
\* no update call has been issued in it.
C15_ListFailureNoUpdate ==
    ListingFailed => pc = "crashed" /\ Count(calls, "updateCheck") = 0

\* C15 as amended: a failed listChecks request ends the process with the
\* HTTPError, no step follows it, and when it is the first listChecks
\* request of the pass no update call has been issued.
C15_ListFailureAborts ==
    [][ /\ ~ListingFailed
        /\ ListingFailed' =>
              /\ pc' = "crashed"
              /\ error' = "HTTPError"
              /\ Count(calls', "listChecks") = 1
                    => Count(calls', "updateCheck") = 0 ]_vars

\* C15: a listChecks request failed after an update call of the same pass.
C15_Witness ==
    /\ ListingFailed
    /\ pc = "crashed"
    /\ Count(calls, "updateCheck") > 0

\* The step ends with a lookup by name or by hostname returning.
LookupReturned ==
    /\ Len(calls') > Len(calls)
    /\ calls'[Len(calls')].op \in { "name_result", "hostname_result" }

LookupField(c) == IF c.op = "name_result" THEN "name" ELSE "hostname"

\* The id of the first check of a snapshot whose field equals val, 0 if none.
MatchIn(list, field, val) ==
    LET hit == Scan(list, field, val) IN IF hit = <<>> THEN 0 ELSE hit[1]

\* C16 as stated: whatever was looked up before, a lookup by name or by
\* hostname returns the match of the snapshot that checks now gives.
C16_LookupsRescan ==
    [][ LookupReturned =>
            LET c == calls'[Len(calls')]
            IN c.id = MatchIn(last_list', LookupField(c), c.key) ]_vars

\* C16 as amended: a lookup by name or by hostname made less than 600
\* seconds after a lookup with the same argument stored its result returns
\* that stored result, a check or None, without a call of checks; any other
\* lookup calls checks and returns the match of the snapshot it gives.
C16_LookupsMemoized ==
    [][ LookupReturned =>
            LET c   == calls'[Len(calls')]
                key == DescribeKey("kw", LookupField(c), c.key)
            IN IF key \in DOMAIN describe_cache
                  /\ now < describe_cache[key].stored + 600
               THEN /\ c.id = IdOf(describe_cache[key].value)
                    /\ Count(calls', "checks") = Count(calls, "checks")
               ELSE /\ ChecksCalled
                    /\ c.id = MatchIn(last_list', LookupField(c), c.key) ]_vars

\* C16: a lookup has returned a stored result that is not the match of the
\* snapshot fetched since.
C16_Witness ==
    /\ calls # <<>>
    /\ calls[Len(calls)].op \in { "name_result", "hostname_result" }
    /\ calls[Len(calls)].id #
           MatchIn(last_list, LookupField(calls[Len(calls)]), calls[Len(calls)].key)

\* C17: the calls made for one resource hold at most one getCheck request
\* per check id.
C17_OneGetPerCheck ==
    \A r \in DOMAIN ingresses : \A id \in DOMAIN remote :
        Cardinality({ k \in Ops(r, "getCheck") : calls[k].id = id }) <= 1

\* C18: a call of checks that raises leaves the cache as it was; the call
\* after one that raised issues a listChecks request; a call that fetches
\* the list stores the snapshot of that fetch, and a call made less than 600
\* seconds after a store returns the stored snapshot without a request.
C18_ErrorsNotCached ==
    [][ ChecksCalled =>
            /\ error' # "none" => checks_cache' = checks_cache
            /\ error # "none" => ListRequests(1)
            /\ (error' = "none" /\ ListRequests(1)) =>
                   /\ ChecksKey \in DOMAIN checks_cache'
                   /\ checks_cache'[ChecksKey].value = Snapshot(remote)
                   /\ last_list' = Snapshot(remote)
            /\ (ChecksKey \in DOMAIN checks_cache
                   /\ now < checks_cache[ChecksKey].stored + 600) =>
                   /\ ListRequests(0)
                   /\ error' = "none"
                   /\ last_list' = checks_cache[ChecksKey].value ]_vars

\* C18: a call of checks raised, the next call fetched the list and the
\* call after that was served the stored snapshot.
C18_Witness ==
    /\ Len(calls) >= 5
    /\ error = "none"
    /\ calls[Len(calls)].op = "checks"
    /\ calls[Len(calls) - 1].op = "listChecks"
    /\ calls[Len(calls) - 2].op = "checks"
    /\ calls[Len(calls) - 3].op = "raised"
    /\ last_list = checks_cache[ChecksKey].value

\* C19: the check body a modify_check works on is the state the remote
\* service holds for that check when modify_check is called, updates made
\* earlier in the pass included.
C19_DiffAgainstUpdated ==
    [][ (ModifyCalled /\ last_modify'.observed # <<>>) =>
            last_modify'.observed[1] = remote[last_modify'.id] ]_vars

\* The DRY_RUN setting asks for a dry run.
ConfiguredDryRun == env_DRY_RUN # <<>> /\ env_DRY_RUN[1] = "true"

\* C20: once main has read its configuration, p.dry_run is set exactly when
\* DRY_RUN is true, and a modify_check holds back a non-empty request only
\* when DRY_RUN is true.
C20_DryRunAsConfigured ==
    /\ pc # "start" => (dry_run <=> ConfiguredDryRun)
    /\ last_modify.result = "simulated" => ConfiguredDryRun

====
